---- MODULE Spec2Model ----
(***************************************************************************)
(* A model of the FloatDuration value type of src/src/duration.rs: one     *)
(* IEEE-754 binary64 count of seconds, its unit constructors and           *)
(* accessors, arithmetic, Display, and the bridges to std::time::Duration  *)
(* and chrono::Duration.                                                   *)
(*                                                                         *)
(* f64 arithmetic is modelled exactly (round-to-nearest, ties-to-even,     *)
(* signed zero, subnormals, infinities, NaN).  TLC integers are 32 bits    *)
(* wide, so a 53-bit significand and a 64-bit integer are kept as          *)
(* little-endian sequences of 15-bit limbs.                                *)
(***************************************************************************)
EXTENDS Integers, Sequences, FiniteSets, TLC

(***************************************************************************)
(* Natural numbers of any width: little-endian limbs, no high zero limb.   *)
(***************************************************************************)
Base == 2 ^ 15

RECURSIVE SmallBitLen(_)
SmallBitLen(n) == IF n = 0 THEN 0 ELSE 1 + SmallBitLen(n \div 2)

LimbBits == SmallBitLen(Base - 1)

Max(a, b) == IF a >= b THEN a ELSE b

Min(a, b) == IF a <= b THEN a ELSE b

BZero == << >>

Limb(a, i) == IF i >= 1 /\ i <= Len(a) THEN a[i] ELSE 0

RECURSIVE BNorm(_)
BNorm(a) ==
    IF a = << >> THEN a
    ELSE IF a[Len(a)] = 0 THEN BNorm(SubSeq(a, 1, Len(a) - 1))
    ELSE a

RECURSIVE BOfNat(_)
BOfNat(n) == IF n = 0 THEN << >> ELSE << n % Base >> \o BOfNat(n \div Base)

RECURSIVE BAddFrom(_, _, _, _)
BAddFrom(a, b, i, c) ==
    IF i > Len(a) /\ i > Len(b)
    THEN (IF c = 0 THEN << >> ELSE << c >>)
    ELSE LET s == Limb(a, i) + Limb(b, i) + c
         IN  << s % Base >> \o BAddFrom(a, b, i + 1, s \div Base)

BAdd(a, b) == BAddFrom(a, b, 1, 0)

RECURSIVE BSubFrom(_, _, _, _)
BSubFrom(a, b, i, c) ==
    IF i > Len(a) THEN << >>
    ELSE LET s == Limb(a, i) - Limb(b, i) - c
         IN  IF s < 0
             THEN << s + Base >> \o BSubFrom(a, b, i + 1, 1)
             ELSE << s >> \o BSubFrom(a, b, i + 1, 0)

\* a - b for a >= b
BSub(a, b) == BNorm(BSubFrom(a, b, 1, 0))

RECURSIVE BCmpFrom(_, _, _)
BCmpFrom(a, b, i) ==
    IF i = 0 THEN 0
    ELSE IF a[i] < b[i] THEN -1
    ELSE IF a[i] > b[i] THEN 1
    ELSE BCmpFrom(a, b, i - 1)

\* -1, 0, 1 as a < b, a = b, a > b
BCmp(a, b) ==
    IF Len(a) < Len(b) THEN -1
    ELSE IF Len(a) > Len(b) THEN 1
    ELSE BCmpFrom(a, b, Len(a))

BLe(a, b) == BCmp(a, b) <= 0

BLt(a, b) == BCmp(a, b) < 0

RECURSIVE BMulSmallFrom(_, _, _, _)
BMulSmallFrom(a, k, i, c) ==
    IF i > Len(a)
    THEN (IF c = 0 THEN << >> ELSE << c >>)
    ELSE LET s == a[i] * k + c
         IN  << s % Base >> \o BMulSmallFrom(a, k, i + 1, s \div Base)

\* a * k for 0 <= k < Base
BMulSmall(a, k) == IF k = 0 THEN << >> ELSE BMulSmallFrom(a, k, 1, 0)

BShiftLimbs(a, q) == IF a = << >> THEN a ELSE [i \in 1..q |-> 0] \o a

RECURSIVE BMulFrom(_, _, _)
BMulFrom(a, b, j) ==
    IF j > Len(b) THEN << >>
    ELSE BAdd(BShiftLimbs(BMulSmall(a, b[j]), j - 1), BMulFrom(a, b, j + 1))

BMul(a, b) == BMulFrom(a, b, 1)

\* a * 2^k
BShl(a, k) == BShiftLimbs(BMulSmall(a, 2 ^ (k % LimbBits)), k \div LimbBits)

\* floor(a / 2^k)
BShr(a, k) ==
    LET q == k \div LimbBits
        r == k % LimbBits
        n == Len(a) - q
    IN  IF n <= 0 THEN << >>
        ELSE BNorm([i \in 1..n |->
                 (a[i + q] \div (2 ^ r))
                 + (Limb(a, i + q + 1) % (2 ^ r)) * (2 ^ (LimbBits - r))])

\* a mod 2^k = 0
BLowZero(a, k) ==
    LET q == k \div LimbBits
        r == k % LimbBits
    IN  /\ \A i \in 1..Min(q, Len(a)) : a[i] = 0
        /\ Limb(a, q + 1) % (2 ^ r) = 0

\* bit k of a, bit 0 the lowest
BBit(a, k) == (Limb(a, k \div LimbBits + 1) \div (2 ^ (k % LimbBits))) % 2

BitLen(a) ==
    IF a = << >> THEN 0
    ELSE LimbBits * (Len(a) - 1) + SmallBitLen(a[Len(a)])

BOne == << 1 >>

BPow2(k) == BShl(BOne, k)

BIsOdd(a) == Limb(a, 1) % 2 = 1

\* One digit of long division (Knuth's algorithm D): the largest t < Base with
\* b * t <= r, for r < b * Base and b's top limb at least Base / 2, so that the
\* estimate from the top limbs is the digit or at most two above it.
BDivDigit(r, b) ==
    LET n   == Len(b)
        est == Min(Base - 1, (Limb(r, n + 1) * Base + Limb(r, n)) \div b[n])
    IN  IF BLe(BMulSmall(b, est), r) THEN est
        ELSE IF BLe(BMulSmall(b, est - 1), r) THEN est - 1
        ELSE est - 2

RECURSIVE BDivStep(_, _, _, _, _)
BDivStep(a, b, i, q, r) ==
    IF i = 0 THEN [q |-> BNorm(q), r |-> r]
    ELSE LET r2 == BNorm(<< a[i] >> \o r)
             t  == BDivDigit(r2, b)
         IN  BDivStep(a, b, i - 1, << t >> \o q, BSub(r2, BMulSmall(b, t)))

\* [q |-> a div b, r |-> a mod b] for b > 0
BDivMod(a, b) ==
    LET sh == LimbBits - SmallBitLen(b[Len(b)])
        d  == BDivStep(BShl(a, sh), BShl(b, sh), Len(BShl(a, sh)), << >>, << >>)
    IN  [q |-> d.q, r |-> BShr(d.r, sh)]

(***************************************************************************)
(* f64: a record [k, s, m, e].  k = "fin": the value (-1)^s * m * 2^e,     *)
(* with m of exactly MantBits bits (normal), or e = EMin and m shorter     *)
(* (subnormal), or m = 0 and e = 0 (zero).  k = "inf": signed infinity.    *)
(* k = "nan": not a number.  The form is canonical, so two f64 have the    *)
(* same bits iff the records are equal.                                    *)
(***************************************************************************)
MantBits == 53

EMin == -1074

EMax == 971

FFin(s, m, e) == [k |-> "fin", s |-> s, m |-> m, e |-> e]

FZeroS(s) == [k |-> "fin", s |-> s, m |-> << >>, e |-> 0]

FInf(s) == [k |-> "inf", s |-> s, m |-> << >>, e |-> 0]

FNaN == [k |-> "nan", s |-> 0, m |-> << >>, e |-> 0]

IsNaN(a) == a.k = "nan"

IsFinite(a) == a.k = "fin"

IsZeroF(a) == a.k = "fin" /\ a.m = << >>

\* m < 2^(MantBits+1), e >= EMin: renormalise a carry out of the significand
FPack(s, m, e) ==
    IF m = << >> THEN FZeroS(s)
    ELSE LET c  == BitLen(m) > MantBits
             m2 == IF c THEN BShr(m, 1) ELSE m
             e2 == IF c THEN e + 1 ELSE e
         IN  IF e2 > EMax THEN FInf(s) ELSE FFin(s, m2, e2)

\* The f64 nearest to (-1)^s * (M + t) * 2^E, 0 <= t < 1 and t > 0 iff sticky;
\* ties to even.  A sticky M has more than MantBits + 1 bits.
FRound(s, M, E, sticky) ==
    IF M = << >> THEN FZeroS(s)
    ELSE LET e1 == Max(E + BitLen(M) - MantBits, EMin)
         IN  IF e1 <= E THEN FPack(s, BShl(M, E - e1), e1)
             ELSE LET sh   == e1 - E
                      q    == BShr(M, sh)
                      half == BBit(M, sh - 1) = 1
                      rest == sticky \/ ~BLowZero(M, sh - 1)
                      up   == half /\ (rest \/ BIsOdd(q))
                  IN  FPack(s, IF up THEN BAdd(q, BOne) ELSE q, e1)

\* n as f64, for a natural number n of any width (u64 as f64, u32 as f64)
FOfBig(n) == FRound(0, n, 0, FALSE)

\* the f64 of a small integer literal
F(n) == IF n < 0 THEN FRound(1, BOfNat(-n), 0, FALSE) ELSE FRound(0, BOfNat(n), 0, FALSE)

FNeg(a) == IF IsNaN(a) THEN a ELSE [a EXCEPT !.s = 1 - a.s]

FAbs(a) == IF IsNaN(a) THEN a ELSE [a EXCEPT !.s = 0]

Xor(s, t) == (s + t) % 2

FMul(a, b) ==
    IF IsNaN(a) \/ IsNaN(b) THEN FNaN
    ELSE IF a.k = "inf" \/ b.k = "inf"
         THEN (IF IsZeroF(a) \/ IsZeroF(b) THEN FNaN ELSE FInf(Xor(a.s, b.s)))
    ELSE IF IsZeroF(a) \/ IsZeroF(b) THEN FZeroS(Xor(a.s, b.s))
    ELSE FRound(Xor(a.s, b.s), BMul(a.m, b.m), a.e + b.e, FALSE)

FDiv(a, b) ==
    IF IsNaN(a) \/ IsNaN(b) THEN FNaN
    ELSE IF a.k = "inf"
         THEN (IF b.k = "inf" THEN FNaN ELSE FInf(Xor(a.s, b.s)))
    ELSE IF b.k = "inf" THEN FZeroS(Xor(a.s, b.s))
    ELSE IF IsZeroF(b)
         THEN (IF IsZeroF(a) THEN FNaN ELSE FInf(Xor(a.s, b.s)))
    ELSE IF IsZeroF(a) THEN FZeroS(Xor(a.s, b.s))
    ELSE LET k  == Max(0, MantBits + 3 + BitLen(b.m) - BitLen(a.m))
             dm == BDivMod(BShl(a.m, k), b.m)
         IN  FRound(Xor(a.s, b.s), dm.q, a.e - b.e - k, dm.r # << >>)

\* finite nonzero a, b with a.e >= b.e
FAddAligned(a, b) ==
    LET far == a.e - b.e > MantBits + 11
        E   == IF far THEN a.e - 3 ELSE b.e
        Ma  == BShl(a.m, a.e - E)
        Mb  == IF far THEN BOne ELSE b.m
    IN  IF a.s = b.s
        THEN FRound(a.s, IF far THEN Ma ELSE BAdd(Ma, Mb), E, far)
        ELSE IF BCmp(Ma, Mb) = 0 THEN FZeroS(0)
        ELSE IF BLt(Mb, Ma) THEN FRound(a.s, BSub(Ma, Mb), E, far)
        ELSE FRound(b.s, BSub(Mb, Ma), E, far)

FAdd(a, b) ==
    IF IsNaN(a) \/ IsNaN(b) THEN FNaN
    ELSE IF a.k = "inf"
         THEN (IF b.k = "inf" /\ a.s # b.s THEN FNaN ELSE a)
    ELSE IF b.k = "inf" THEN b
    ELSE IF IsZeroF(a) /\ IsZeroF(b) THEN FZeroS(IF a.s = 1 /\ b.s = 1 THEN 1 ELSE 0)
    ELSE IF IsZeroF(a) THEN b
    ELSE IF IsZeroF(b) THEN a
    ELSE IF a.e >= b.e THEN FAddAligned(a, b) ELSE FAddAligned(b, a)

FSub(a, b) == FAdd(a, FNeg(b))

\* f64::trunc: the integer part, toward zero
FTrunc(a) ==
    IF a.k # "fin" \/ a.e >= 0 THEN a
    ELSE LET t == BShr(a.m, -a.e)
         IN  IF t = << >> THEN FZeroS(a.s) ELSE FFin(a.s, BShl(t, -a.e), a.e)

\* f64::fract: self - self.trunc()
FFract(a) == FSub(a, FTrunc(a))

\* the order of magnitudes of two non-NaN values: -1, 0, 1
MagCmp(a, b) ==
    IF a.k = "inf" THEN (IF b.k = "inf" THEN 0 ELSE 1)
    ELSE IF b.k = "inf" THEN -1
    ELSE IF a.m = << >> THEN (IF b.m = << >> THEN 0 ELSE -1)
    ELSE IF b.m = << >> THEN 1
    ELSE IF a.e # b.e THEN (IF a.e < b.e THEN -1 ELSE 1)
    ELSE BCmp(a.m, b.m)

\* the order of two non-NaN values: -1, 0, 1 (-0.0 and 0.0 are equal)
FCmp(a, b) ==
    IF IsZeroF(a) /\ IsZeroF(b) THEN 0
    ELSE IF a.s # b.s THEN (IF a.s = 1 THEN -1 ELSE 1)
    ELSE IF a.s = 0 THEN MagCmp(a, b) ELSE MagCmp(b, a)

\* the f64 operators ==, >, < (false when an operand is NaN)
FEq(a, b) == ~IsNaN(a) /\ ~IsNaN(b) /\ FCmp(a, b) = 0

FGt(a, b) == ~IsNaN(a) /\ ~IsNaN(b) /\ FCmp(a, b) = 1

FLt(a, b) == ~IsNaN(a) /\ ~IsNaN(b) /\ FCmp(a, b) = -1

\* f64::is_sign_negative / is_sign_positive: the sign bit alone
is_sign_negative(a) == a.s = 1

is_sign_positive(a) == a.s = 0

\* 2^e as f64 (EMin <= e), and n * 2^e for a small natural number n
FPow2(e) == FRound(0, BOne, e, FALSE)

FScaled(s, n, e) == FRound(s, BOfNat(n), e, FALSE)

\* std::f64::MAX and std::f64::MIN
F64_MAX == FFin(0, BSub(BPow2(MantBits), BOne), EMax)

F64_MIN == FNeg(F64_MAX)

(***************************************************************************)
(* Integers of the machine: u64 and u32 are naturals (limbs); i64 is a     *)
(* sign and a magnitude, [neg, mag], zero never negative.                  *)
(***************************************************************************)
U64_MAX == BSub(BPow2(64), BOne)

U32_MAX == BSub(BPow2(32), BOne)

I64_MAX == BSub(BPow2(63), BOne)

\* a mod 2^k
BLowBits(a, k) == BSub(a, BShl(BShr(a, k), k))

\* `x as u64`, `x as u32` on f64 x: toward zero; NaN is 0; out of range is
\* saturated by rustc 1.45 and later ("saturate") and undefined before: the
\* x86-64 code of the older compilers gives the low bits ("wrap").
CastModes == {"saturate", "wrap"}

FToUnsigned(a, bits, mode) ==
    LET top == BSub(BPow2(bits), BOne)
    IN  IF IsNaN(a) \/ a.s = 1 \/ IsZeroF(a) THEN BZero
        ELSE IF a.k = "inf" THEN (IF mode = "wrap" THEN BZero ELSE top)
        ELSE IF a.e + BitLen(a.m) > bits
             THEN (IF mode = "saturate" THEN top
                   ELSE IF a.e >= bits THEN BZero
                   ELSE BLowBits(BShl(a.m, a.e), bits))
        ELSE IF a.e < 0 THEN BShr(a.m, -a.e)
        ELSE BShl(a.m, a.e)

\* a natural number below 2^31 out of its limbs
RECURSIVE BToNat(_)
BToNat(a) == IF a = << >> THEN 0 ELSE a[1] + Base * BToNat(Tail(a))

(***************************************************************************)
(* src/src/duration.rs                                                     *)
(***************************************************************************)
NANOS_PER_SEC == F(1000000000)

MICROS_PER_SEC == F(1000000)

MILLIS_PER_SEC == F(1000)

SECS_PER_MINUTE == F(60)

SECS_PER_HOUR == FMul(SECS_PER_MINUTE, F(60))

SECS_PER_DAY == FMul(SECS_PER_HOUR, F(24))

\* struct FloatDuration { secs: f64 }
FloatDuration(secs) == [secs |-> secs]

days(x) == FloatDuration(FMul(x, SECS_PER_DAY))

hours(x) == FloatDuration(FMul(x, SECS_PER_HOUR))

minutes(x) == FloatDuration(FMul(x, SECS_PER_MINUTE))

seconds(x) == FloatDuration(x)

milliseconds(x) == FloatDuration(FDiv(x, MILLIS_PER_SEC))

microseconds(x) == FloatDuration(FDiv(x, MICROS_PER_SEC))

nanoseconds(x) == FloatDuration(FDiv(x, NANOS_PER_SEC))

as_days(self) == FDiv(self.secs, SECS_PER_DAY)

as_hours(self) == FDiv(self.secs, SECS_PER_HOUR)

as_minutes(self) == FDiv(self.secs, SECS_PER_MINUTE)

as_seconds(self) == self.secs

as_milliseconds(self) == FMul(self.secs, MILLIS_PER_SEC)

as_microseconds(self) == FMul(self.secs, MICROS_PER_SEC)

\* as_nanoseconds without the scaling
as_nanoseconds_unscaled(self) == self.secs

as_nanoseconds(self) == FMul(self.secs, NANOS_PER_SEC)

abs(self) == FloatDuration(FAbs(self.secs))

zero == FloatDuration(F(0))

is_zero(self) == FEq(self.secs, F(0))

is_positive(self) == is_sign_positive(self.secs)

\* is_negative as a comparison with zero: self.secs < 0.0
is_negative_cmp(self) == FLt(self.secs, F(0))

is_negative(self) == is_sign_negative(self.secs)

min_value == FloatDuration(F64_MIN)

max_value == FloatDuration(F64_MAX)

default == zero

\* #[derive(PartialEq, PartialOrd)]: the comparison of the secs fields
eq(a, b) == FEq(a.secs, b.secs)

Units == {"days", "hours", "minutes", "seconds", "milliseconds", "microseconds", "nanoseconds"}

\* the constructor and the accessor of a unit, by its name
from_unit(u, x) ==
    CASE u = "days" -> days(x)
      [] u = "hours" -> hours(x)
      [] u = "minutes" -> minutes(x)
      [] u = "seconds" -> seconds(x)
      [] u = "milliseconds" -> milliseconds(x)
      [] u = "microseconds" -> microseconds(x)
      [] u = "nanoseconds" -> nanoseconds(x)

as_unit(u, self) ==
    CASE u = "days" -> as_days(self)
      [] u = "hours" -> as_hours(self)
      [] u = "minutes" -> as_minutes(self)
      [] u = "seconds" -> as_seconds(self)
      [] u = "milliseconds" -> as_milliseconds(self)
      [] u = "microseconds" -> as_microseconds(self)
      [] u = "nanoseconds" -> as_nanoseconds(self)

\* Result<T, E>
Ok(v) == [ok |-> TRUE, val |-> v, err |-> "-"]

Err(e) == [ok |-> FALSE, val |-> << >>, err |-> e]

Panic == [ok |-> FALSE, val |-> << >>, err |-> "panic"]

\* std::time::Duration::new(secs, nanos): the nanoseconds beyond a second carry
\* into the seconds, and a carry out of u64 panics
NanosPerSecInt == BToNat(FToUnsigned(NANOS_PER_SEC, 32, "saturate"))

StdDurationNew(secs, nanos) ==
    LET n == BToNat(nanos)
        s == BAdd(secs, BOfNat(n \div NanosPerSecInt))
    IN  IF BLt(U64_MAX, s) THEN Panic
        ELSE Ok([secs |-> s, nanos |-> n % NanosPerSecInt])

to_std(self, mode) ==
    IF is_sign_negative(self.secs)
    THEN Err("StdOutOfRange")
    ELSE LET secs_trunc == FTrunc(self.secs)
             nanos      == FMul(FFract(self.secs), NANOS_PER_SEC)
         IN  IF FGt(secs_trunc, FOfBig(U64_MAX))
             THEN Err("StdOutOfRange")
             ELSE StdDurationNew(FToUnsigned(secs_trunc, 64, mode),
                                 FToUnsigned(nanos, 32, mode))

\* from_std without the sub-second part
from_std_whole_seconds(duration) == seconds(FOfBig(duration.secs))

\* duration.as_secs() as f64 + duration.subsec_nanos() as f64 / NANOS_PER_SEC
from_std(duration) ==
    seconds(FAdd(FOfBig(duration.secs),
                 FDiv(FOfBig(BOfNat(duration.nanos)), NANOS_PER_SEC)))

(***************************************************************************)
(* chrono::Duration (the crate's oldtime Duration): secs: i64 and          *)
(* nanos: i32 in 0 .. 999,999,999, the value secs + nanos / 1e9.           *)
(***************************************************************************)
SInt(neg, mag) == [neg |-> neg /\ mag # << >>, mag |-> mag]

SNeg(a) == SInt(~a.neg, a.mag)

SAdd(a, b) ==
    IF a.neg = b.neg THEN SInt(a.neg, BAdd(a.mag, b.mag))
    ELSE IF BLe(b.mag, a.mag) THEN SInt(a.neg, BSub(a.mag, b.mag))
    ELSE SInt(b.neg, BSub(b.mag, a.mag))

SOfInt(n) == IF n < 0 THEN SInt(TRUE, BOfNat(-n)) ELSE SInt(FALSE, BOfNat(n))

\* a fits i64: -2^63 <= a <= 2^63 - 1
FitsI64(a) == IF a.neg THEN BLe(a.mag, BPow2(63)) ELSE BLe(a.mag, I64_MAX)

\* `n as f64` for an i64
FOfSInt(a) == FRound(IF a.neg THEN 1 ELSE 0, a.mag, 0, FALSE)

ChronoMillisPerSec == BOfNat(1000)

ChronoNanosPerMilli == 1000000

\* chrono's MAX: i64::MAX milliseconds
ChronoMaxSecs == BDivMod(I64_MAX, ChronoMillisPerSec).q

ChronoMaxNanos == BToNat(BDivMod(I64_MAX, ChronoMillisPerSec).r) * ChronoNanosPerMilli

ChronoDuration(secs, nanos) == [secs |-> secs, nanos |-> nanos]

\* chrono::Duration::from_std
chrono_from_std(d) ==
    IF BLt(ChronoMaxSecs, d.secs) THEN Err("OutOfRangeError")
    ELSE IF d.secs = ChronoMaxSecs /\ d.nanos > ChronoMaxNanos THEN Err("OutOfRangeError")
    ELSE Ok(ChronoDuration(SInt(FALSE, d.secs), d.nanos))

\* impl Neg for chrono::Duration
chrono_neg(c) ==
    IF c.nanos = 0 THEN ChronoDuration(SNeg(c.secs), 0)
    ELSE ChronoDuration(SAdd(SNeg(c.secs), SOfInt(-1)), NanosPerSecInt - c.nanos)

\* chrono::Duration::num_seconds and nanos_mod_sec: both carry the sign
chrono_num_seconds(c) ==
    IF c.secs.neg /\ c.nanos > 0 THEN SAdd(c.secs, SOfInt(1)) ELSE c.secs

chrono_nanos_mod_sec(c) ==
    IF c.secs.neg /\ c.nanos > 0 THEN c.nanos - NanosPerSecInt ELSE c.nanos

SMulBig(a, k) == SInt(a.neg, BMul(a.mag, k))

\* Rust's integer division, toward zero
TruncDiv(n, k) == IF n < 0 THEN -((-n) \div k) ELSE n \div k

\* chrono::Duration::num_nanoseconds: None when the i64 overflows
chrono_num_nanoseconds(c) ==
    LET secs_part == SMulBig(chrono_num_seconds(c), BOfNat(NanosPerSecInt))
        total     == SAdd(secs_part, SOfInt(chrono_nanos_mod_sec(c)))
    IN  IF ~FitsI64(secs_part) \/ ~FitsI64(total)
        THEN [some |-> FALSE, val |-> SOfInt(0)]
        ELSE [some |-> TRUE, val |-> total]

\* chrono::Duration::num_milliseconds
chrono_num_milliseconds(c) ==
    SAdd(SMulBig(chrono_num_seconds(c), ChronoMillisPerSec),
         SOfInt(TruncDiv(chrono_nanos_mod_sec(c), ChronoNanosPerMilli)))

\* the error.rs conversion of `?`: every failure of to_chrono is a DurationError
ErrorFrom(e) == IF e.ok THEN e ELSE Err("StdOutOfRange")

\* to_chrono without the sign handling
to_chrono_unsigned(self, mode) ==
    LET std_duration == to_std(self, mode)
    IN  IF ~std_duration.ok THEN ErrorFrom(std_duration)
        ELSE chrono_from_std(std_duration.val)

to_chrono(self, mode) ==
    LET is_neg       == is_negative(self)
        std_duration == to_std(abs(self), mode)
    IN  IF ~std_duration.ok THEN ErrorFrom(std_duration)
        ELSE LET chrono_duration == chrono_from_std(std_duration.val)
             IN  IF ~chrono_duration.ok THEN ErrorFrom(chrono_duration)
                 ELSE IF is_neg THEN Ok(chrono_neg(chrono_duration.val))
                 ELSE Ok(chrono_duration.val)

\* from_chrono through the millisecond accessor alone
from_chrono_millis(duration) == milliseconds(FOfSInt(chrono_num_milliseconds(duration)))

from_chrono(duration) ==
    LET nanos == chrono_num_nanoseconds(duration)
    IN  IF nanos.some THEN nanoseconds(FOfSInt(nanos.val))
        ELSE milliseconds(FOfSInt(chrono_num_milliseconds(duration)))

(***************************************************************************)
(* TimePoint.  An instant is [secs, nanos] on its clock.                   *)
(***************************************************************************)
InstantLe(a, b) == a.secs < b.secs \/ (a.secs = b.secs /\ a.nanos <= b.nanos)

\* later - earlier as a std::time::Duration, for earlier <= later
InstantDiff(later, earlier) ==
    IF later.nanos >= earlier.nanos
    THEN [secs |-> BOfNat(later.secs - earlier.secs), nanos |-> later.nanos - earlier.nanos]
    ELSE [secs |-> BOfNat(later.secs - earlier.secs - 1),
          nanos |-> later.nanos + NanosPerSecInt - earlier.nanos]

\* std::time::SystemTime::duration_since: Err(SystemTimeError) when `earlier`
\* is later than self
SystemTime_duration_since(self, earlier) ==
    IF InstantLe(earlier, self) THEN Ok(InstantDiff(self, earlier))
    ELSE Err("SystemTimeError")

\* std::time::Instant::duration_since: when `earlier` is later than self it
\* panics (std before 1.60) or returns zero (std 1.60 and later)
InstantModes == {"panic", "saturate"}

Instant_duration_since(self, earlier, std) ==
    IF InstantLe(earlier, self) THEN Ok(InstantDiff(self, earlier))
    ELSE IF std = "panic" THEN Panic
    ELSE Ok([secs |-> BZero, nanos |-> 0])

\* impl TimePoint for time::Instant
Instant_float_duration_since(self, since, std) ==
    LET std_duration == Instant_duration_since(self, since, std)
    IN  IF std_duration.ok THEN Ok(from_std(std_duration.val)) ELSE std_duration

\* impl TimePoint for time::SystemTime
SystemTime_float_duration_since(self, since) ==
    LET std_duration == SystemTime_duration_since(self, since)
    IN  IF std_duration.ok THEN Ok(from_std(std_duration.val))
        ELSE Err("SystemTimeError")

(***************************************************************************)
(* impl fmt::Display: the text is "{} <unit>" of the f64 named here.       *)
(***************************************************************************)
Shown(value, unit) == [value |-> value, unit |-> unit]

\* fmt with >= in place of >
fmt_inclusive(self) ==
    IF ~FLt(self.secs, SECS_PER_DAY) THEN Shown(as_days(self), "days")
    ELSE IF ~FLt(self.secs, SECS_PER_HOUR) THEN Shown(as_hours(self), "hours")
    ELSE IF ~FLt(self.secs, SECS_PER_MINUTE) THEN Shown(as_minutes(self), "minutes")
    ELSE IF ~FLt(self.secs, F(1)) THEN Shown(as_seconds(self), "seconds")
    ELSE IF ~FLt(self.secs, FDiv(F(1), F(1000))) THEN Shown(as_milliseconds(self), "milliseconds")
    ELSE IF ~FLt(self.secs, FDiv(F(1), F(1000000))) THEN Shown(as_microseconds(self), "microseconds")
    ELSE Shown(as_nanoseconds(self), "nanoseconds")

fmt(self) ==
    IF FGt(self.secs, SECS_PER_DAY) THEN Shown(as_days(self), "days")
    ELSE IF FGt(self.secs, SECS_PER_HOUR) THEN Shown(as_hours(self), "hours")
    ELSE IF FGt(self.secs, SECS_PER_MINUTE) THEN Shown(as_minutes(self), "minutes")
    ELSE IF FGt(self.secs, F(1)) THEN Shown(as_seconds(self), "seconds")
    ELSE IF FGt(self.secs, FDiv(F(1), F(1000))) THEN Shown(as_milliseconds(self), "milliseconds")
    ELSE IF FGt(self.secs, FDiv(F(1), F(1000000))) THEN Shown(as_microseconds(self), "microseconds")
    ELSE Shown(as_nanoseconds(self), "nanoseconds")

(***************************************************************************)
(* impl ops::*.  An operator takes its operands by value (the type is      *)
(* Copy); a compound assignment takes the receiver by &mut and returns     *)
(* the operands as the call leaves them.                                   *)
(***************************************************************************)
neg(self) == FloatDuration(FNeg(self.secs))

add(self, rhs) == FloatDuration(FAdd(self.secs, rhs.secs))

sub(self, rhs) == FloatDuration(FSub(self.secs, rhs.secs))

mul(self, rhs) == FloatDuration(FMul(self.secs, rhs))

mul_f64(self, rhs) == FloatDuration(FMul(self, rhs.secs))

div(self, rhs) == FloatDuration(FDiv(self.secs, rhs))

div_duration(self, rhs) == FDiv(self.secs, rhs.secs)

add_assign(self, rhs) == [self |-> [self EXCEPT !.secs = FAdd(self.secs, rhs.secs)], rhs |-> rhs]

\* sub_assign with the operands of the subtraction exchanged
sub_assign_swapped(self, rhs) == [self |-> [self EXCEPT !.secs = FSub(rhs.secs, self.secs)], rhs |-> rhs]

sub_assign(self, rhs) == [self |-> [self EXCEPT !.secs = FSub(self.secs, rhs.secs)], rhs |-> rhs]

mul_assign(self, rhs) == [self |-> [self EXCEPT !.secs = FMul(self.secs, rhs)], rhs |-> rhs]

div_assign(self, rhs) == [self |-> [self EXCEPT !.secs = FDiv(self.secs, rhs)], rhs |-> rhs]

(***************************************************************************)
(* The values the constructors are called with: the arguments of the       *)
(* repository's tests, and the edges of the conversions.                   *)
(***************************************************************************)
\* n / d as an f64 literal (3 / 10 is the literal 0.3)
Dec(n, d) == FDiv(F(n), F(d))

\* the f64 next to a normal a, toward zero
FPred(a) == FFin(a.s, BSub(a.m, BOne), a.e)

TestInputs ==
    { F(3), Dec(3, 2), F(36), F(30), Dec(1, 2), Dec(7, 2), Dec(3, 10), F(1000),
      F(1), F(-3), F(5), F(-2), F(-1), F(100), Dec(25, 2), Dec(101, 4), F(90),
      Dec(25005, 100), F(-20), F(55), F(60) }

EdgeInputs ==
    { F(0), FNeg(F(0)),
      FPow2(64), FSub(FPow2(64), FPow2(11)), FAdd(FPow2(64), FPow2(12)),
      F64_MAX, FFin(0, BOne, EMin),
      FSub(F(1), FPow2(-53)), FAdd(F(1), FPow2(-52)),
      FAdd(FPow2(23), FScaled(0, 15, -29)),
      FPred(Dec(29, 1000000000)),
      FAdd(FScaled(0, 3, 31), FScaled(0, 7, -20)),
      FNeg(FAdd(FScaled(0, 3, 31), FScaled(0, 7, -20))),
      F(-90), Dec(13, 10),
      FMul(F(100000), F(100000)), FMul(F(100000000), F(100000000)) }

Inputs == TestInputs \cup EdgeInputs

\* std::time::Duration values handed to from_std directly
StdInputs ==
    { [secs |-> BZero, nanos |-> 0], [secs |-> BZero, nanos |-> 1],
      [secs |-> BOne, nanos |-> 1], [secs |-> BOfNat(300), nanos |-> 0],
      [secs |-> U64_MAX, nanos |-> NanosPerSecInt - 1] }

\* chrono::Duration values handed to from_chrono directly: the tests' values
\* and values whose nanosecond count does not fit an i64
ChronoInputs ==
    { ChronoDuration(SOfInt(600), 0), ChronoDuration(SOfInt(0), 500),
      ChronoDuration(SOfInt(-1), NanosPerSecInt - 20000000),
      ChronoDuration(SOfInt(0), 0),
      ChronoDuration(SOfInt(36000000), 0),
      ChronoDuration(SInt(FALSE, BMul(BOfNat(100000), BOfNat(100000))), NanosPerSecInt - 1),
      ChronoDuration(SInt(TRUE, BMul(BOfNat(100000), BOfNat(100000))), 1),
      ChronoDuration(SInt(FALSE, BSub(ChronoMaxSecs, BOfNat(348834))), 502715579),
      ChronoDuration(SInt(TRUE, BSub(ChronoMaxSecs, BOfNat(348833))), 497284421),
      ChronoDuration(SInt(FALSE, ChronoMaxSecs), ChronoMaxNanos) }

\* the instants of a clock: whole seconds 0 .. MaxInstantSecs and a few
\* sub-second parts
MaxInstantSecs == 2

Instants ==
    { [secs |-> t, nanos |-> n] : t \in 0..MaxInstantSecs, n \in {0, 1, NanosPerSecInt - 1} }

None == [ok |-> FALSE, val |-> << >>, err |-> "none"]

\* the operands of the arithmetic: durations and scalars of the tests
ArithDurations == { seconds(Dec(3, 2)), minutes(F(-3)), milliseconds(Dec(3, 10)) }

ArithScalars == { Dec(13, 10), F(-2), F(0) }

MaxAssigns == 2

(***************************************************************************)
(* The state: a caller's receiver `self`, what it was made from, the last  *)
(* call `op` with its argument `arg` and what it returned, `ret`.  A       *)
(* behaviour is one use of the library: a value is made, an operation is   *)
(* called on it, and a bridge is taken back.                               *)
(***************************************************************************)
VARIABLES op, self, given, arg, ret, pure, n

vars == << op, self, given, arg, ret, pure, n >>

Init ==
    /\ op = "new"
    /\ self = default
    /\ given = [unit |-> "seconds", x |-> F(0)]
    /\ arg = None
    /\ ret = None
    /\ pure = default
    /\ n = 0

\* FloatDuration::days(x) .. FloatDuration::nanoseconds(x)
Construct(u, x) ==
    /\ op = "new"
    /\ op' = "construct"
    /\ self' = from_unit(u, x)
    /\ given' = [unit |-> u, x |-> x]
    /\ pure' = from_unit(u, x)
    /\ UNCHANGED << arg, ret, n >>

\* self.as_days() .. self.as_nanoseconds()
Accessor(v) ==
    /\ op = "construct"
    /\ op' = "as"
    /\ arg' = v
    /\ ret' = as_unit(v, self)
    /\ UNCHANGED << self, given, pure, n >>

\* self.to_std()
ToStd(mode) ==
    /\ op = "construct"
    /\ op' = "to_std"
    /\ arg' = mode
    /\ ret' = to_std(self, mode)
    /\ UNCHANGED << self, given, pure, n >>

\* self.is_zero(), self.is_positive(), self.is_negative() and self == zero(),
\* beside self.to_std()
SignOfToStd ==
    /\ op = "to_std"
    /\ op' = "sign"
    /\ arg' = [is_zero |-> is_zero(self), is_positive |-> is_positive(self),
               is_negative |-> is_negative(self), eq_zero |-> eq(self, zero)]
    /\ UNCHANGED << self, given, ret, pure, n >>

\* FloatDuration::from_std(self.to_std().unwrap())
FromStdBack ==
    /\ op = "to_std"
    /\ ret.ok
    /\ op' = "from_std_back"
    /\ arg' = ret.val
    /\ ret' = from_std(ret.val)
    /\ UNCHANGED << self, given, pure, n >>

\* FloatDuration::from_std(duration)
FromStd(duration) ==
    /\ op = "new"
    /\ op' = "from_std"
    /\ arg' = duration
    /\ ret' = from_std(duration)
    /\ UNCHANGED << self, given, pure, n >>

\* format!("{}", self)
Display ==
    /\ op = "construct"
    /\ op' = "fmt"
    /\ ret' = fmt(self)
    /\ UNCHANGED << self, given, arg, pure, n >>

\* self.to_chrono()
ToChrono(mode) ==
    /\ op = "construct"
    /\ op' = "to_chrono"
    /\ arg' = mode
    /\ ret' = to_chrono(self, mode)
    /\ UNCHANGED << self, given, pure, n >>

\* (-self).to_chrono(), beside self.to_chrono()
ToChronoNeg ==
    /\ op = "to_chrono"
    /\ op' = "to_chrono_neg"
    /\ arg' = ret
    /\ ret' = to_chrono(neg(self), arg)
    /\ UNCHANGED << self, given, pure, n >>

\* FloatDuration::from_chrono(&self.to_chrono().unwrap())
FromChronoBack ==
    /\ op = "to_chrono"
    /\ ret.ok
    /\ op' = "from_chrono_back"
    /\ arg' = ret.val
    /\ ret' = from_chrono(ret.val)
    /\ UNCHANGED << self, given, pure, n >>

\* FloatDuration::from_chrono(&duration)
FromChrono(duration) ==
    /\ op = "new"
    /\ op' = "from_chrono"
    /\ arg' = duration
    /\ ret' = from_chrono(duration)
    /\ UNCHANGED << self, given, pure, n >>

\* now.float_duration_since(since) on two SystemTime
SystemTimeSince(now, since) ==
    /\ op = "new"
    /\ op' = "system_time_since"
    /\ arg' = [now |-> now, since |-> since]
    /\ ret' = SystemTime_float_duration_since(now, since)
    /\ UNCHANGED << self, given, pure, n >>

\* now.float_duration_since(since) on two Instant
InstantSince(now, since, std) ==
    /\ op = "new"
    /\ op' = "instant_since"
    /\ arg' = [now |-> now, since |-> since]
    /\ ret' = Instant_float_duration_since(now, since, std)
    /\ UNCHANGED << self, given, pure, n >>

Next ==
    \/ \E u \in Units, x \in Inputs : Construct(u, x)
    \/ \E v \in Units : Accessor(v)
    \/ \E mode \in CastModes : ToStd(mode)
    \/ SignOfToStd
    \/ FromStdBack
    \/ \E duration \in StdInputs : FromStd(duration)
    \/ Display
    \/ \E mode \in CastModes : ToChrono(mode)
    \/ ToChronoNeg
    \/ FromChronoBack
    \/ \E duration \in ChronoInputs : FromChrono(duration)
    \/ \E now \in Instants, since \in Instants : SystemTimeSince(now, since)
    \/ \E now \in Instants, since \in Instants, std \in InstantModes :
           InstantSince(now, since, std)

Spec == Init /\ [][Next]_vars

(***************************************************************************)
(* The arithmetic.  `self` is a caller's `let mut` duration, changed by    *)
(* the compound assignments; `pure` is the same value taken through the    *)
(* pure operators instead.  `given` holds the operands as they were before *)
(* the call, `arg` the right-hand side as the call left it.                *)
(***************************************************************************)
InitArith ==
    /\ op = "new"
    /\ self \in ArithDurations
    /\ pure = self
    /\ given = [was |-> self, rhs |-> zero]
    /\ arg = zero
    /\ ret = None
    /\ n = 0

AssignOps == {"add_assign", "sub_assign", "mul_assign", "div_assign"}

\* self += rhs
AddAssign(rhs) ==
    /\ op \in {"new"} \cup AssignOps
    /\ n < MaxAssigns
    /\ op' = "add_assign"
    /\ self' = add_assign(self, rhs).self
    /\ arg' = add_assign(self, rhs).rhs
    /\ given' = [was |-> self, rhs |-> rhs]
    /\ pure' = add(pure, rhs)
    /\ n' = n + 1
    /\ UNCHANGED ret

\* self -= rhs
SubAssign(rhs) ==
    /\ op \in {"new"} \cup AssignOps
    /\ n < MaxAssigns
    /\ op' = "sub_assign"
    /\ self' = sub_assign(self, rhs).self
    /\ arg' = sub_assign(self, rhs).rhs
    /\ given' = [was |-> self, rhs |-> rhs]
    /\ pure' = sub(pure, rhs)
    /\ n' = n + 1
    /\ UNCHANGED ret

\* self *= rhs
MulAssign(rhs) ==
    /\ op \in {"new"} \cup AssignOps
    /\ n < MaxAssigns
    /\ op' = "mul_assign"
    /\ self' = mul_assign(self, rhs).self
    /\ arg' = mul_assign(self, rhs).rhs
    /\ given' = [was |-> self, rhs |-> rhs]
    /\ pure' = mul(pure, rhs)
    /\ n' = n + 1
    /\ UNCHANGED ret

\* self /= rhs
DivAssign(rhs) ==
    /\ op \in {"new"} \cup AssignOps
    /\ n < MaxAssigns
    /\ op' = "div_assign"
    /\ self' = div_assign(self, rhs).self
    /\ arg' = div_assign(self, rhs).rhs
    /\ given' = [was |-> self, rhs |-> rhs]
    /\ pure' = div(pure, rhs)
    /\ n' = n + 1
    /\ UNCHANGED ret

\* The pure operators take self and rhs by value and return the result.

\* -self
Neg ==
    /\ op = "new"
    /\ op' = "neg"
    /\ ret' = neg(self)
    /\ given' = [was |-> self, rhs |-> zero]
    /\ arg' = zero
    /\ UNCHANGED << self, pure, n >>

\* self + rhs
Add(rhs) ==
    /\ op = "new"
    /\ op' = "add"
    /\ ret' = add(self, rhs)
    /\ given' = [was |-> self, rhs |-> rhs]
    /\ arg' = rhs
    /\ UNCHANGED << self, pure, n >>

\* self - rhs
Sub(rhs) ==
    /\ op = "new"
    /\ op' = "sub"
    /\ ret' = sub(self, rhs)
    /\ given' = [was |-> self, rhs |-> rhs]
    /\ arg' = rhs
    /\ UNCHANGED << self, pure, n >>

\* self * rhs
Mul(rhs) ==
    /\ op = "new"
    /\ op' = "mul"
    /\ ret' = mul(self, rhs)
    /\ given' = [was |-> self, rhs |-> rhs]
    /\ arg' = rhs
    /\ UNCHANGED << self, pure, n >>

\* lhs * self
MulF64(lhs) ==
    /\ op = "new"
    /\ op' = "mul_f64"
    /\ ret' = mul_f64(lhs, self)
    /\ given' = [was |-> self, rhs |-> lhs]
    /\ arg' = lhs
    /\ UNCHANGED << self, pure, n >>

\* self / rhs
Div(rhs) ==
    /\ op = "new"
    /\ op' = "div"
    /\ ret' = div(self, rhs)
    /\ given' = [was |-> self, rhs |-> rhs]
    /\ arg' = rhs
    /\ UNCHANGED << self, pure, n >>

\* self / rhs, of two durations
DivDuration(rhs) ==
    /\ op = "new"
    /\ op' = "div_duration"
    /\ ret' = div_duration(self, rhs)
    /\ given' = [was |-> self, rhs |-> rhs]
    /\ arg' = rhs
    /\ UNCHANGED << self, pure, n >>

NextArith ==
    \/ \E rhs \in ArithDurations : AddAssign(rhs)
    \/ \E rhs \in ArithDurations : SubAssign(rhs)
    \/ \E rhs \in ArithScalars : MulAssign(rhs)
    \/ \E rhs \in ArithScalars : DivAssign(rhs)
    \/ Neg
    \/ \E rhs \in ArithDurations : Add(rhs)
    \/ \E rhs \in ArithDurations : Sub(rhs)
    \/ \E rhs \in ArithScalars : Mul(rhs)
    \/ \E lhs \in ArithScalars : MulF64(lhs)
    \/ \E rhs \in ArithScalars : Div(rhs)
    \/ \E rhs \in ArithDurations : DivDuration(rhs)

SpecArith == InitArith /\ [][NextArith]_vars

(***************************************************************************)
(* Exact arithmetic on f64 values, for stating what a conversion should    *)
(* give: a finite f64 is num / 2^k nanoseconds, num a signed integer.      *)
(***************************************************************************)
BNanosPerSec == BOfNat(NanosPerSecInt)

\* the whole part of a finite a >= 0, as an integer
TruncInt(a) ==
    IF a.m = << >> THEN BZero
    ELSE IF a.e >= 0 THEN BShl(a.m, a.e)
    ELSE BShr(a.m, -a.e)

\* a >= 2^64: the whole seconds of a do not fit a u64
ExceedsU64(a) == a.k = "inf" \/ (a.k = "fin" /\ a.m # << >> /\ a.e + BitLen(a.m) > 64)

\* a in nanoseconds, times 2^k, for a finite a and k >= -a.e
NanosTimes(a, k) == SInt(a.s = 1, BShl(BMul(a.m, BNanosPerSec), a.e + k))

\* the k that serves both a and b
CommonShift(a, b) == Max(0, Max(-a.e, -b.e))

\* (a - b) in nanoseconds, times 2^CommonShift(a, b)
DiffNanos(a, b) ==
    SAdd(NanosTimes(a, CommonShift(a, b)), SNeg(NanosTimes(b, CommonShift(a, b))))

\* a - b < c nanoseconds, and a - b >= -2^e seconds, for finite a and b
DiffBelowNanos(a, b, c) ==
    LET d == DiffNanos(a, b)
    IN  d.neg \/ BLt(d.mag, BShl(BOfNat(c), CommonShift(a, b)))

DiffAtLeastMinusPow2(a, b, e) ==
    LET d == DiffNanos(a, b)
    IN  ~d.neg \/ BLe(d.mag, BShl(BNanosPerSec, CommonShift(a, b) + e))

\* |a - b| < c nanoseconds + 2^e seconds
AbsDiffBelow(a, b, c, e) ==
    LET d == DiffNanos(a, b)
        k == CommonShift(a, b)
    IN  BLt(d.mag, BAdd(BShl(BOfNat(c), k), BShl(BNanosPerSec, k + e)))

\* a is a whole number of nanoseconds
WholeNanos(a) == a.m = << >> \/ a.e >= 0 \/ BLowZero(BMul(a.m, BNanosPerSec), -a.e)

\* the distance from a finite a to the next f64 away from zero is 2^UlpExp(a)
UlpExp(a) == IF a.m = << >> THEN EMin ELSE a.e

(***************************************************************************)
(* C1.  to_std returns the StdOutOfRange error for every duration whose    *)
(* seconds are negative and for every one whose whole seconds exceed       *)
(* 2^64 - 1, and Ok for every other duration.                              *)
(* The code compares with `u64::MAX as f64`, which is 2^64: a duration of  *)
(* exactly 2^64 seconds passes the comparison and the cast then saturates  *)
(* (or wraps), so this formula is violated.                                *)
(***************************************************************************)
C1_ToStdRejectsOutOfRange ==
    op = "to_std" =>
        (ret.ok <=> ~(is_sign_negative(self.secs) \/ ExceedsU64(self.secs)))

(***************************************************************************)
(* C2.  Whenever to_std succeeds, the seconds of the result are the whole  *)
(* part of the duration's seconds, and the nanoseconds are the f64 product *)
(* fract * 1e9 cut to an integer, in 0 .. 999,999,999.                     *)
(* Violated at 2^64 seconds, where to_std succeeds (C1) with 2^64 - 1      *)
(* seconds, or with 0.                                                     *)
(***************************************************************************)
C2_ToStdTruncates ==
    (op = "to_std" /\ ret.ok) =>
        /\ ret.val.secs = TruncInt(self.secs)
        /\ BOfNat(ret.val.nanos) = TruncInt(FMul(FFract(self.secs), NANOS_PER_SEC))
        /\ ret.val.nanos \in 0..(NanosPerSecInt - 1)

(***************************************************************************)
(* C3.  The round trip through std::time::Duration.  d is in the range of  *)
(* the system duration when to_std took it and its whole seconds fit u64.  *)
(***************************************************************************)
InStdRange(d) == ~is_sign_negative(d.secs) /\ IsFinite(d.secs) /\ ~ExceedsU64(d.secs)

\* the f64 r is the sum secs + nanos / 1e9 of a std duration, to an ulp of r
IsStdValue(r, duration) ==
    LET k     == Max(0, -r.e)
        exact == BShl(BAdd(BMul(duration.secs, BNanosPerSec), BOfNat(duration.nanos)), k)
        got   == NanosTimes(r, k)
        d     == SAdd(got, SInt(TRUE, exact))
    IN  IsFinite(r) /\ ~got.neg /\ BLe(d.mag, BShl(BNanosPerSec, k + UlpExp(r)))

\* C3 as claimed: d - from_std(to_std(d)) is in [0, 1 ns), and is zero when d
\* is a whole number of nanoseconds.  Violated: at 2^23 + 15 * 2^-29 seconds
\* the difference is 2^-29 s (1.86 ns), and just below 2.9e-8 seconds the round
\* trip gives 2.9e-8, above d.
C3_RoundTripWithinOneNano ==
    (op = "from_std_back" /\ InStdRange(self)) =>
        /\ DiffBelowNanos(self.secs, ret.secs, 1)
        /\ ~DiffNanos(self.secs, ret.secs).neg
        /\ (WholeNanos(self.secs) => ret = self)

\* C3 as amended: d - from_std(to_std(d)) is less than 2 ns, the round trip
\* exceeds d by at most one ulp of d, and it is d when d is a whole number of
\* nanoseconds; from_std of any std duration is its secs + nanos / 1e9.
C3_RoundTripWithinTwoNanos ==
    /\ (op = "from_std_back" /\ InStdRange(self)) =>
           /\ DiffBelowNanos(self.secs, ret.secs, 2)
           /\ DiffAtLeastMinusPow2(self.secs, ret.secs, UlpExp(self.secs))
           /\ (WholeNanos(self.secs) => ret = self)
    /\ op \in {"from_std", "from_std_back"} => IsStdValue(ret.secs, arg)

C3_Witness ==
    /\ op = "from_std_back"
    /\ self = seconds(FAdd(FPow2(23), FScaled(0, 15, -29)))
    /\ ret = seconds(FAdd(FPow2(23), FScaled(0, 14, -29)))

(***************************************************************************)
(* C4.  Display chooses the unit by the magnitude of the duration, for     *)
(* negative durations as for positive ones.                                *)
(* The code compares self.secs, not its magnitude, with the thresholds, so *)
(* every negative duration is printed in nanoseconds: violated.            *)
(***************************************************************************)
UnitOrder == << "days", "hours", "minutes", "seconds", "milliseconds", "microseconds" >>

\* one unit's worth of seconds
Threshold(u) == from_unit(u, F(1)).secs

\* the largest unit whose threshold s strictly exceeds
UnitFor(s) ==
    LET over == {i \in 1..Len(UnitOrder) : FCmp(s, Threshold(UnitOrder[i])) = 1}
    IN  IF over = {} THEN "nanoseconds"
        ELSE UnitOrder[CHOOSE i \in over : \A j \in over : i <= j]

C4_DisplayByMagnitude ==
    op = "fmt" => ret.unit = UnitFor(FAbs(self.secs))

(***************************************************************************)
(* C5.  For a positive duration Display prints the value in the largest    *)
(* unit whose threshold the seconds strictly exceed: a duration of exactly *)
(* one unit is printed in the next smaller unit, one above it in the unit. *)
(***************************************************************************)
SmallerUnit(u) ==
    CASE u = "days" -> "hours"
      [] u = "hours" -> "minutes"
      [] u = "minutes" -> "seconds"
      [] u = "seconds" -> "milliseconds"
      [] u = "milliseconds" -> "microseconds"
      [] u = "microseconds" -> "nanoseconds"

C5_DisplayStrictThresholds ==
    (op = "fmt" /\ FCmp(self.secs, F(0)) = 1) =>
        /\ ret.unit = UnitFor(self.secs)
        /\ ret.value = as_unit(ret.unit, self)
        /\ \A i \in 1..Len(UnitOrder) :
               self.secs = Threshold(UnitOrder[i]) => ret.unit = SmallerUnit(UnitOrder[i])

C5_Witness ==
    /\ op = "fmt"
    /\ self = hours(F(1))
    /\ ret = Shown(F(60), "minutes")

(***************************************************************************)
(* C6.  to_chrono converts the absolute value through to_std and chrono's  *)
(* from_std and negates the result exactly when the duration was negative: *)
(* where to_chrono(d) succeeds, to_chrono(-d) is its negation; it is an    *)
(* error exactly when to_std fails on |d| or chrono rejects the magnitude, *)
(* whatever the sign of d.                                                 *)
(***************************************************************************)
MagnitudeAccepted(d, mode) ==
    /\ to_std(abs(d), mode).ok
    /\ chrono_from_std(to_std(abs(d), mode).val).ok

C6_ToChronoSign ==
    /\ op = "to_chrono" =>
           /\ ret.ok <=> MagnitudeAccepted(self, arg)
           /\ ret.ok => (ret.val.secs.neg => is_negative(self))
           /\ ret.ok => ret.val = (IF is_negative(self)
                                   THEN chrono_neg(chrono_from_std(to_std(abs(self), arg).val).val)
                                   ELSE chrono_from_std(to_std(abs(self), arg).val).val)
    /\ (op = "to_chrono_neg" /\ arg.ok) => (ret.ok /\ ret.val = chrono_neg(arg.val))

C6_Witness ==
    /\ op = "to_chrono_neg"
    /\ self = nanoseconds(F(-20))
    /\ arg = Ok(ChronoDuration(SOfInt(-1), NanosPerSecInt - 20))
    /\ ret = Ok(ChronoDuration(SOfInt(0), 20))

(***************************************************************************)
(* C7.  The round trip through chrono::Duration, and the millisecond       *)
(* fallback of from_chrono.                                                *)
(***************************************************************************)
\* the value of a chrono duration in nanoseconds, exactly
ChronoNanos(c) == SAdd(SMulBig(c.secs, BNanosPerSec), SOfInt(c.nanos))

NanosFitI64(c) == FitsI64(ChronoNanos(c))

\* |a| is at most i64::MAX nanoseconds, for a finite a
WithinI64Nanos(a) ==
    \/ a.e + BitLen(a.m) + BitLen(BNanosPerSec) < 64
    \/ /\ a.e + BitLen(a.m) <= 64
       /\ BLe(NanosTimes(a, Max(0, -a.e)).mag, BShl(I64_MAX, Max(0, -a.e)))

\* |a - b| < c nanoseconds, for finite a and b
AbsDiffBelowNanos(a, b, c) ==
    BLt(DiffNanos(a, b).mag, BShl(BOfNat(c), CommonShift(a, b)))

\* |r - c| < ms milliseconds + |c| * 2^-rel, for an f64 r and a chrono duration c
NearChrono(r, c, ms, rel) ==
    LET k     == Max(0, -r.e)
        exact == ChronoNanos(c)
        d     == SAdd(NanosTimes(r, k), SNeg(SInt(exact.neg, BShl(exact.mag, k))))
    IN  BLt(BShl(d.mag, rel),
            BAdd(BShl(BMul(BOfNat(ms), BOfNat(ChronoNanosPerMilli)), k + rel),
                 BShl(exact.mag, k)))

\* C7 as claimed: within the i64 nanosecond range from_chrono(to_chrono(d)) is d
\* to less than a nanosecond; beyond it from_chrono is within a millisecond of
\* the chrono duration and has its sign.  Violated: 3 * 2^31 + 7 * 2^-20 seconds
\* comes back 2^-20 s (0.95 us) larger, and 9,223,372,036,505,941.502715579 s
\* comes back as ...940.0 s.
C7_ChronoRoundTripWithinOneNano ==
    /\ (op = "from_chrono_back" /\ WithinI64Nanos(self.secs)) =>
           AbsDiffBelowNanos(self.secs, ret.secs, 1)
    /\ (op \in {"from_chrono", "from_chrono_back"} /\ ~NanosFitI64(arg)) =>
           /\ NearChrono(ret.secs, arg, 1, MantBits + 11)
           /\ ret.secs.s = (IF arg.secs.neg THEN 1 ELSE 0)

\* C7 as amended: within the i64 nanosecond range from_chrono(to_chrono(d))
\* differs from d by less than one nanosecond plus one ulp of d; beyond it
\* from_chrono is the chrono duration to less than one millisecond plus two
\* f64 roundings (2^-51 of the value), and has its sign.
C7_ChronoRoundTripWithinUlp ==
    /\ (op = "from_chrono_back" /\ WithinI64Nanos(self.secs)) =>
           AbsDiffBelow(self.secs, ret.secs, 1, UlpExp(self.secs))
    /\ (op \in {"from_chrono", "from_chrono_back"} /\ ~NanosFitI64(arg)) =>
           /\ NearChrono(ret.secs, arg, 1, MantBits - 2)
           /\ ret.secs.s = (IF arg.secs.neg THEN 1 ELSE 0)
    /\ (op \in {"from_chrono", "from_chrono_back"} /\ NanosFitI64(arg)) =>
           \/ ChronoNanos(arg).mag = BZero /\ is_zero(ret)
           \/ NearChrono(ret.secs, arg, 0, MantBits - 2)

C7_Witness ==
    /\ op = "from_chrono_back"
    /\ self = seconds(FNeg(FAdd(FScaled(0, 3, 31), FScaled(0, 7, -20))))
    /\ WithinI64Nanos(self.secs)
    /\ ret = seconds(FNeg(FAdd(FScaled(0, 3, 31), FScaled(0, 8, -20))))

(***************************************************************************)
(* C8.  float_duration_since on SystemTime is an error exactly when        *)
(* `since` is after the receiver and otherwise the elapsed time, not       *)
(* negative; on Instant it returns Ok for every pair of instants.          *)
(* The Instant implementation calls Instant::duration_since, which panics  *)
(* on std before 1.60 when `since` is the later instant: violated.         *)
(***************************************************************************)
C8_TimePointErrors ==
    /\ op = "system_time_since" =>
           /\ ret.ok <=> InstantLe(arg.since, arg.now)
           /\ ret.ok => ~is_sign_negative(ret.val.secs)
    /\ op = "instant_since" => ret.ok

(***************************************************************************)
(* C9.  A duration made from x of one unit and read in another is          *)
(* x * (seconds per first unit) / (seconds per second unit).               *)
(***************************************************************************)
\* one unit in nanoseconds
NanosPerUnit(u) ==
    CASE u = "days" -> BMul(BOfNat(86400), BNanosPerSec)
      [] u = "hours" -> BMul(BOfNat(3600), BNanosPerSec)
      [] u = "minutes" -> BMul(BOfNat(60), BNanosPerSec)
      [] u = "seconds" -> BNanosPerSec
      [] u = "milliseconds" -> BOfNat(1000000)
      [] u = "microseconds" -> BOfNat(1000)
      [] u = "nanoseconds" -> BOne

IsNormal(a) == a.k = "fin" /\ BitLen(a.m) = MantBits

\* r of unit v is x of unit u with a relative error below 2^-rel, for normal r and x
ScaledWithin(r, v, x, u, rel) ==
    LET lo    == Min(r.e, x.e)
        got   == SInt(r.s = 1, BShl(BMul(r.m, NanosPerUnit(v)), r.e - lo))
        exact == SInt(x.s = 1, BShl(BMul(x.m, NanosPerUnit(u)), x.e - lo))
    IN  BLt(BShl(SAdd(got, SNeg(exact)).mag, rel), exact.mag)

\* C9 as claimed, for the accessor of the constructor's own unit, where the
\* formula is x itself: fromU(x).asU() == x for every finite x.  Violated:
\* nanoseconds(30.0).as_nanoseconds() is 29.999999999999996.
C9_UnitRoundTripExact ==
    (op = "as" /\ arg = given.unit /\ IsFinite(given.x)) => FEq(ret, given.x)

\* C9 as amended: where neither step overflows or underflows, the value read
\* is x * (seconds per U) / (seconds per V) with a relative error below 2^-51
\* (two f64 roundings); it is x itself for seconds, zero for a zero x; and
\* days(1.5) == hours(36), nanoseconds(1000) == microseconds(1).
C9_UnitScalingRounded ==
    /\ (op = "as" /\ IsNormal(given.x) /\ IsNormal(self.secs) /\ IsNormal(ret)) =>
           ScaledWithin(ret, arg, given.x, given.unit, MantBits - 2)
    /\ (op = "as" /\ IsZeroF(given.x)) => ret = given.x
    /\ (op = "as" /\ arg = "seconds" /\ given.unit = "seconds") => ret = given.x
    /\ (op = "construct" /\ given = [unit |-> "days", x |-> Dec(3, 2)]) =>
           eq(self, hours(F(36)))
    /\ (op = "construct" /\ given = [unit |-> "nanoseconds", x |-> F(1000)]) =>
           eq(self, microseconds(F(1)))

C9_Witness ==
    /\ op = "as"
    /\ given = [unit |-> "nanoseconds", x |-> F(30)]
    /\ arg = "nanoseconds"
    /\ ret = FPred(F(30))

(***************************************************************************)
(* C10.  A compound assignment leaves in the receiver what the pure        *)
(* operator gives for the same operands, so a sequence of them equals the  *)
(* pure operators applied in the same order; it does not change its        *)
(* right-hand side, and a pure operator changes neither operand.           *)
(***************************************************************************)
ApplyPure(name, a, b) ==
    CASE name = "add_assign" -> add(a, b)
      [] name = "sub_assign" -> sub(a, b)
      [] name = "mul_assign" -> mul(a, b)
      [] name = "div_assign" -> div(a, b)

C10_AssignMatchesPure ==
    /\ op \in AssignOps =>
           /\ self = pure
           /\ self = ApplyPure(op, given.was, given.rhs)
           /\ arg = given.rhs
    /\ op \in {"neg", "add", "sub", "mul", "mul_f64", "div", "div_duration"} =>
           /\ self = given.was
           /\ arg = given.rhs

C10_Witness ==
    /\ op = "sub_assign"
    /\ n = MaxAssigns
    /\ given.rhs = milliseconds(Dec(3, 10))
    /\ self = pure
    /\ self # given.was

(***************************************************************************)
(* C11.  The sign of a duration is its sign bit.  As the claim has it:     *)
(* exactly one of is_positive and is_negative holds of every duration;     *)
(* zero() is zero and positive; -zero() is zero, negative and equal to     *)
(* zero(); to_std(zero()) is Ok(0 s, 0 ns) and to_std(-zero()) is the      *)
(* StdOutOfRange error; and to_std returns the error for exactly the       *)
(* durations of which is_negative holds.                                   *)
(* The last part is violated: to_std returns the same error for a duration *)
(* that is positive and longer than u64::MAX seconds.                      *)
(***************************************************************************)
C11_SignsOfZero ==
    /\ arg.is_positive # arg.is_negative
    /\ self = zero =>
           /\ arg.is_zero /\ arg.is_positive
           /\ ret = Ok([secs |-> BZero, nanos |-> 0])
    /\ self = neg(zero) =>
           /\ arg.is_zero /\ arg.is_negative /\ arg.eq_zero
           /\ ret = Err("StdOutOfRange")

C11_ToStdRejectsExactlyNegative ==
    op = "sign" =>
        /\ C11_SignsOfZero
        /\ ~ret.ok <=> arg.is_negative

(***************************************************************************)
(* C11, as the code has it.  The sign of a duration is its sign bit:       *)
(* exactly one of is_positive and is_negative holds; zero() is zero and    *)
(* positive and to_std takes it to (0 s, 0 ns); -zero() is zero, negative, *)
(* equal to zero(), and to_std rejects it; to_std returns StdOutOfRange    *)
(* for every duration of which is_negative holds, and every other duration *)
(* it rejects has whole seconds above u64::MAX.                            *)
(***************************************************************************)
C11_SignBitDecides ==
    op = "sign" =>
        /\ C11_SignsOfZero
        /\ arg.is_negative => ret = Err("StdOutOfRange")
        /\ (~ret.ok /\ ~arg.is_negative) =>
               /\ ret = Err("StdOutOfRange")
               /\ ExceedsU64(self.secs)

C11_Witness ==
    /\ op = "sign"
    /\ self = neg(zero)
    /\ given = [unit |-> "seconds", x |-> FNeg(F(0))]
    /\ arg = [is_zero |-> TRUE, is_positive |-> FALSE, is_negative |-> TRUE,
              eq_zero |-> TRUE]
    /\ ret = Err("StdOutOfRange")

====
